---- MODULE Spec2Model ----
(***************************************************************************)
(* Model of the /chat response pipeline, the conversation store and the    *)
(* FAQ matcher of app.py.                                                  *)
(*                                                                         *)
(* Text is a sequence of one-character strings, so that lower-casing,      *)
(* substring search, stripping and tokenizing are computed the way the     *)
(* code computes them.  Text that the program only stores and returns      *)
(* (the handoff message, the system prompt) is kept as one atom.           *)
(*                                                                         *)
(* Spec is the server with its routes, store faults and up to two request  *)
(* threads; SeqSpec is the same server with one thread and a store whose   *)
(* writes all commit; FnSpec applies load_faqs, tokenize and               *)
(* find_relevant_faq on their own to bounded sets of arguments.            *)
(***************************************************************************)
EXTENDS Integers, Sequences, FiniteSets, TLC

(* ------------------------------ bounds --------------------------------- *)

\* number of requests (/chat, /history, /clear_history) in one behaviour
MaxRequests == 2
\* longest list of models configured in MODEL_FALLBACKS
MaxModels == 2
\* longest text handed to tokenize on its own
MaxTextLen == 4
\* most entries of a knowledge base handed to find_relevant_faq on its own
MaxEntries == 2

(* ------------------------------ text ----------------------------------- *)

Uppers == <<"A","B","C","D","E","F","G","H","I","J","K","L","M","N","O","P","Q","R","S","T","U","V","W","X","Y","Z">>
Lowers == <<"a","b","c","d","e","f","g","h","i","j","k","l","m","n","o","p","q","r","s","t","u","v","w","x","y","z">>
Digits == <<"0","1","2","3","4","5","6","7","8","9">>

Range(s) == {s[i] : i \in 1..Len(s)}

\* Python's None
None == <<"None">>

\* truth value of a str-or-None in a Python condition
Truthy(x) == x # None /\ x # <<>>

\* c.lower() for one character
LowerChar(c) ==
    IF \E i \in 1..Len(Uppers) : Uppers[i] = c
    THEN Lowers[CHOOSE i \in 1..Len(Uppers) : Uppers[i] = c]
    ELSE c

\* str.lower()
Lower(s) == [i \in 1..Len(s) |-> LowerChar(s[i])]

\* the letters and digits of the model's alphabet
Alnum == Range(Uppers) \cup Range(Lowers) \cup Range(Digits)

\* c.isalnum()
IsAlnum(c) == c \in Alnum

\* k in q  (substring test)
Contains(q, k) ==
    \E i \in 0..(Len(q) - Len(k)) : \A j \in 1..Len(k) : q[i + j] = k[j]

\* str.strip(): drop leading and trailing whitespace
Strip(s) ==
    LET nonsp == {i \in 1..Len(s) : s[i] # " "}
    IN  IF nonsp = {} THEN <<>>
        ELSE SubSeq(s, CHOOSE i \in nonsp : \A j \in nonsp : i <= j,
                       CHOOSE i \in nonsp : \A j \in nonsp : i >= j)

\* str.split(): the maximal runs of non-blank characters, in order
RECURSIVE SplitFrom(_, _, _)
SplitFrom(s, i, word) ==
    IF i > Len(s)
    THEN IF word = <<>> THEN <<>> ELSE <<word>>
    ELSE IF s[i] = " "
         THEN IF word = <<>> THEN SplitFrom(s, i + 1, <<>>)
              ELSE <<word>> \o SplitFrom(s, i + 1, <<>>)
         ELSE SplitFrom(s, i + 1, Append(word, s[i]))

Split(s) == SplitFrom(s, 1, <<>>)

\* " ".join(words)
RECURSIVE Join(_)
Join(words) ==
    IF words = <<>> THEN <<>>
    ELSE IF Len(words) = 1 THEN words[1]
    ELSE words[1] \o <<" ">> \o Join(Tail(words))

(* ------------------------------ tokenizer ------------------------------ *)

\* tokenize keeping the tokens of one character
TokenizeKeepShort(text) ==
    LET t      == IF Truthy(text) THEN text ELSE <<>>
        low    == Lower(t)
        spaced == [i \in 1..Len(low) |-> IF IsAlnum(low[i]) THEN low[i] ELSE " "]
    IN  SelectSeq(Split(spaced), LAMBDA w : Len(w) > 0)

tokenize(text) ==
    LET t      == IF Truthy(text) THEN text ELSE <<>>
        low    == Lower(t)
        spaced == [i \in 1..Len(low) |-> IF IsAlnum(low[i]) THEN low[i] ELSE " "]
    IN  SelectSeq(Split(spaced), LAMBDA w : Len(w) > 1)

(* ------------------------------ matcher -------------------------------- *)

\* scores are exact fractions <<numerator, denominator>>
ScoreGT(a, b) == a[1] * b[2] > b[1] * a[2]
ScoreGE(a, b) == a[1] * b[2] >= b[1] * a[2]

\* default of the threshold parameter, 0.3
DefaultThreshold == <<3, 10>>

Max(a, b) == IF a >= b THEN a ELSE b
Min(a, b) == IF a <= b THEN a ELSE b

\* round(score, 3), in thousandths (ties to even)
Round3(sc) ==
    LET n == 1000 * sc[1]
        q == n \div sc[2]
        r == n % sc[2]
    IN  IF 2 * r > sc[2] THEN q + 1
        ELSE IF 2 * r < sc[2] THEN q
        ELSE IF q % 2 = 0 THEN q ELSE q + 1

\* the text an entry is matched on
Combined(faq) == faq.question \o <<" ">> \o faq.answer \o <<" ">> \o Join(faq.tags)

\* score of one entry against the query's token set
EntryScore(q_tokens, faq) ==
    LET tokens == Range(tokenize(Combined(faq)))
    IN  <<Cardinality(q_tokens \cap tokens), Max(1, Cardinality(tokens))>>

\* BestFrom with an entry taking over from one of equal score
RECURSIVE BestFromGE(_, _, _, _)
BestFromGE(faqs, q_tokens, i, best) ==
    IF i > Len(faqs) THEN best
    ELSE LET tokens == Range(tokenize(Combined(faqs[i])))
             score  == EntryScore(q_tokens, faqs[i])
         IN  IF tokens = {} THEN BestFromGE(faqs, q_tokens, i + 1, best)
             ELSE IF ScoreGE(score, best[1])
                  THEN BestFromGE(faqs, q_tokens, i + 1, <<score, i>>)
                  ELSE BestFromGE(faqs, q_tokens, i + 1, best)

\* the loop over FAQ_LIST: best is <<best_score, index of best_faq or 0>>
RECURSIVE BestFrom(_, _, _, _)
BestFrom(faqs, q_tokens, i, best) ==
    IF i > Len(faqs) THEN best
    ELSE LET tokens == Range(tokenize(Combined(faqs[i])))
             score  == EntryScore(q_tokens, faqs[i])
         IN  IF tokens = {} THEN BestFrom(faqs, q_tokens, i + 1, best)
             ELSE IF ScoreGT(score, best[1])
                  THEN BestFrom(faqs, q_tokens, i + 1, <<score, i>>)
                  ELSE BestFrom(faqs, q_tokens, i + 1, best)

\* find_relevant_faq asking for a score above the threshold
FindAboveThreshold(faqs, query, threshold) ==
    LET q_tokens == Range(tokenize(query))
        best     == BestFrom(faqs, q_tokens, 1, <<(<<0, 1>>), 0>>)
    IN  IF q_tokens = {} THEN <<None, 0>>
        ELSE IF best[2] # 0 /\ ScoreGT(best[1], threshold)
             THEN <<faqs[best[2]].answer, Round3(best[1])>>
             ELSE <<None, 0>>

\* returns <<answer or None, match score in thousandths>>
find_relevant_faq(faqs, query, threshold) ==
    LET q_tokens == Range(tokenize(query))
        best     == BestFrom(faqs, q_tokens, 1, <<(<<0, 1>>), 0>>)
    IN  IF q_tokens = {} THEN <<None, 0>>
        ELSE IF best[2] # 0 /\ ScoreGE(best[1], threshold)
             THEN <<faqs[best[2]].answer, Round3(best[1])>>
             ELSE <<None, 0>>

(* ------------------------- rule-based escalation ----------------------- *)

ESCALATION_KEYWORDS == <<
    <<"h","a","c","k">>,
    <<"h","a","c","k","i","n","g">>,
    <<"i","l","l","e","g","a","l">>,
    <<"f","r","a","u","d">>,
    <<"s","t","e","a","l">>,
    <<"b","r","e","a","c","h">>,
    <<"a","t","t","a","c","k">>,
    <<"e","x","p","l","o","i","t">>,
    <<"b","o","m","b">>,
    <<"t","e","r","r","o","r">>,
    <<"k","i","l","l">> >>

should_escalate(query) ==
    IF ~Truthy(query) THEN FALSE
    ELSE LET q == Lower(query)
         IN  \E i \in 1..Len(ESCALATION_KEYWORDS) : Contains(q, ESCALATION_KEYWORDS[i])

(* ------------------------------ configuration -------------------------- *)

\* model identifiers; the first is the one app.py configures
ModelNames == <<"llama-3.1-8b-instant", "model-b", "model-c", "model-d">>

\* the lists MODEL_FALLBACKS may hold: the configured model, then fallbacks
ModelLists == {SubSeq(ModelNames, 1, n) : n \in 1..Min(MaxModels, Len(ModelNames))}

HANDOFF == <<"I cannot help with that. Connecting you to a human agent...">>

system_prompt == <<"You are a helpful and concise customer support assistant. If the user's request is illegal, harmful, or requires human intervention, reply EXACTLY with the token: ESCALATE_TO_AGENT">>

SENTINEL == <<"E","S","C","A","L","A","T","E","_","T","O","_","A","G","E","N","T">>

\* str(resp)[:1000]
ReprLimit == 1000

(* ------------------------------ FAQ loader ----------------------------- *)

\* What open() and json.load() make of faqs.json.  file is "missing" (open
\* raises), "invalid" (json.load raises) or "json"; the parsed value is a
\* list (items), a dict (members, as <<key, value>> pairs) or a scalar.  An
\* item of a list is an object with the keys in has, or a string.
JsonObject(has, question, answer, tags) ==
    [type |-> "object", has |-> has, question |-> question, answer |-> answer, tags |-> tags]
JsonString == [type |-> "string", has |-> {}, question |-> <<>>, answer |-> <<>>, tags |-> <<>>]

Unreadable(file) == [file |-> file, type |-> "none", items |-> <<>>, members |-> <<>>]
JsonList(items) == [file |-> "json", type |-> "list", items |-> items, members |-> <<>>]
JsonDict(members) == [file |-> "json", type |-> "dict", items |-> <<>>, members |-> members]
JsonScalar == [file |-> "json", type |-> "scalar", items |-> <<>>, members |-> <<>>]

\* item.get(key, default)
Get(item, key, default) ==
    IF key \in item.has
    THEN CASE key = "question" -> item.question
           [] key = "answer"   -> item.answer
           [] key = "tags"     -> item.tags
    ELSE default

\* k.replace("_", " ")
ReplaceUnderscores(k) == [i \in 1..Len(k) |-> IF k[i] = "_" THEN " " ELSE k[i]]

\* what load_faqs() does: raised tells that an exception left the function
\* (and with it the import of the module), logged that logger.error ran
Loaded(faqs) == [raised |-> FALSE, logged |-> FALSE, faqs |-> faqs]
LoadFailed == [raised |-> FALSE, logged |-> TRUE, faqs |-> <<>>]
LoadRaised == [raised |-> TRUE, logged |-> FALSE, faqs |-> <<>>]

load_faqs(source) ==
    IF source.file # "json" THEN LoadFailed
    ELSE IF source.type = "list"
         THEN IF \E i \in 1..Len(source.items) : source.items[i].type # "object"
              THEN LoadRaised
              ELSE Loaded([i \in 1..Len(source.items) |->
                       [question |-> Get(source.items[i], "question", <<>>),
                        answer   |-> Get(source.items[i], "answer", <<>>),
                        tags     |-> Get(source.items[i], "tags", <<>>)]])
         ELSE IF source.type = "dict"
              THEN Loaded([i \in 1..Len(source.members) |->
                       [question |-> ReplaceUnderscores(source.members[i][1]),
                        answer   |-> source.members[i][2],
                        tags     |-> <<>>]])
              ELSE Loaded(<<>>)

(* ------------------------------ inputs --------------------------------- *)

\* the files faqs.json may be
S_MISSING == Unreadable("missing")
S_INVALID == Unreadable("invalid")
S_SCALAR  == JsonScalar
S_LIST_A  == JsonList(<<
    JsonObject({"question", "answer"}, <<"k","i","l","l"," ","p","i","n">>, <<"o","f","f">>, <<>>),
    JsonObject({"question", "answer", "tags"}, <<"r","e","s","e","t">>, <<"g","o">>,
               << <<"a","c","c","o","u","n","t">> >>),
    JsonObject({"question"}, <<"c","o","d","e">>, <<>>, <<>>) >>)
S_LIST_EMPTY   == JsonList(<<>>)
S_LIST_STRINGS == JsonList(<<JsonString>>)
S_LIST_MIXED   == JsonList(<<
    JsonObject({"question", "answer"}, <<"r","e","s","e","t">>, <<"g","o">>, <<>>),
    JsonString >>)
S_DICT == JsonDict(<< <<(<<"r","e","s","e","t","_","p","i","n">>), (<<"g","o">>)>> >>)
S_DICT_EMPTY == JsonDict(<<>>)

Sources == {S_MISSING, S_INVALID, S_SCALAR, S_LIST_A, S_LIST_EMPTY, S_LIST_STRINGS,
            S_LIST_MIXED, S_DICT, S_DICT_EMPTY}

\* knowledge bases the process may have loaded: none (load failed) or three
\* entries, the last with an empty answer
KB_A == load_faqs(S_LIST_A).faqs

KnowledgeBases == {load_faqs(src).faqs : src \in {S_MISSING, S_LIST_A}}

Sessions == {"default", "s1"}

\* the request body has no session_id key
Missing == "<missing>"

Q_ESC   == <<"s","K","I","L","L","s"," ","p","i","n">>
Q_FAQ   == <<"R","e","s","e","t"," ","i","t">>
Q_EMPTY == <<"c","o","d","e">>

\* values of the query key: absent or null, empty, and three texts
Queries == {None, <<>>, Q_ESC, Q_FAQ, Q_EMPTY}

\* responses of the backend: which extraction path yields text, and the text
Responses == {
    [path |-> "message", text |-> <<" ","o","k"," ">>],
    [path |-> "text",    text |-> SENTINEL \o <<" ">>],
    [path |-> "repr",    text |-> <<"n","o"," ">> \o SENTINEL] }

\* a call that returned, and resp while no call has returned
OK == <<"ok">>
NoResponse == [path |-> "none", text |-> <<>>]

\* the error a call of a model raises, and the error of a failed store access
CallError(model) == <<"unavailable", model>>
DB_ERROR == <<"database is locked">>
NoError == None

\* the request threads of the server; with one worker only t1 serves
Threads == {"t1", "t2"}
Serving(n) == IF n = 1 THEN {"t1"} ELSE Threads

\* the configuration app.py ships with
DeployedModels == <<"llama-3.1-8b-instant">>

\* texts handed to tokenize: None and every text of up to MaxTextLen
\* characters over an upper-case letter, a lower-case letter, a digit, a
\* blank and a punctuation mark
TextAlphabet == {"A", "b", "7", " ", "-"}
Texts == {None} \cup UNION {[1..n -> TextAlphabet] : n \in 0..MaxTextLen}

\* entries handed to find_relevant_faq: two that tie on every query, one
\* with two tokens, one without any token, one with a tag and no answer
E_AB    == [question |-> <<"a","b">>, answer |-> <<"p">>, tags |-> <<>>]
E_AB2   == [question |-> <<"A","B","?">>, answer |-> <<"q">>, tags |-> <<>>]
E_ABCD  == [question |-> <<"a","b"," ","c","d">>, answer |-> <<"r">>, tags |-> <<>>]
E_NONE  == [question |-> <<"c">>, answer |-> <<"s">>, tags |-> <<>>]
E_EFCD  == [question |-> <<"e","f">>, answer |-> <<>>, tags |-> << <<"c","d">> >>]
MatchEntries == {E_AB, E_AB2, E_ABCD, E_NONE, E_EFCD}

\* every list of up to MaxEntries of them
MatchKBs == UNION {[1..n -> MatchEntries] : n \in 0..MaxEntries}

MatchQueries == {None, <<>>, <<"c">>, <<"x","y">>, <<"a","b">>, <<"C","D">>,
                 <<"a","b"," ","c","d">>, <<"c","d","-","e","f">>}

\* thresholds: 0, the default 0.3, 0.5 and 1
Thresholds == {<<0, 1>>, DefaultThreshold, <<1, 2>>, <<1, 1>>}

(* ------------------------------ state ---------------------------------- *)

VARIABLES
    FAQ_LIST,         \* the loaded knowledge base
    MODEL_FALLBACKS,  \* the configured models, in retry order
    workers,          \* how many requests the server handles at a time
    conversations,    \* rows of the conversations table
    seq,              \* AUTOINCREMENT counter of the table
    inv,              \* per request thread: position and locals of chat()
    nInv,             \* requests started so far
    log,              \* per session: what was inserted since its last clear
    call              \* a function of the module applied on its own

vars == <<FAQ_LIST, MODEL_FALLBACKS, workers, conversations, seq, inv, nInv, log, call>>

\* no function is applied on its own
NoCall == [op |-> "none", text |-> None, threshold |-> DefaultThreshold,
           source |-> Unreadable("none"), returned |-> FALSE,
           tokens |-> <<>>, answer |-> None, score |-> 0, loaded |-> Loaded(<<>>)]

NoOutcome == [kind |-> "none", status |-> 0, error |-> "", detail |-> NoError,
              response |-> None, source |-> <<>>, action |-> "",
              session_id |-> "", match_score |-> 0, cleared |-> FALSE, body |-> <<>>]

Idle == [pc |-> "idle", route |-> "", id |-> 0, session_id |-> "", query |-> None,
         faq_answer |-> None, score |-> 0, messages |-> <<>>,
         mi |-> 0, last_error |-> NoError, resp |-> NoResponse, bot_reply |-> <<>>,
         final_reply |-> <<>>, action |-> "", outcome |-> NoOutcome,
         calls |-> <<>>, warnings |-> <<>>, writes |-> <<>>, stages |-> {}]

Init ==
    /\ \/ /\ workers = 1
          /\ FAQ_LIST = KB_A
          /\ MODEL_FALLBACKS \in ModelLists
       \/ /\ workers = 1
          /\ FAQ_LIST \in KnowledgeBases
          /\ MODEL_FALLBACKS = DeployedModels
       \/ /\ workers = 2
          /\ FAQ_LIST = KB_A
          /\ MODEL_FALLBACKS = DeployedModels
    /\ conversations = {}
    /\ seq = 0
    /\ inv = [t \in Threads |-> Idle]
    /\ nInv = 0
    /\ log = [s \in Sessions |-> <<>>]
    /\ call = NoCall

\* a request is accepted while the budget lasts and handed to the first
\* thread that is free
Free(t) == inv[t].pc \in {"idle", "done"}
Accepts(t) ==
    /\ t \in Serving(workers)
    /\ Free(t)
    /\ t = "t1" \/ ~Free("t1")
    /\ nInv < MaxRequests

(* ------------------------------ store ---------------------------------- *)

\* SortedIds in descending order
RECURSIVE SortedIdsDesc(_)
SortedIdsDesc(ids) ==
    IF ids = {} THEN <<>>
    ELSE LET m == CHOOSE i \in ids : \A j \in ids : i >= j
         IN  <<m>> \o SortedIdsDesc(ids \ {m})

RECURSIVE SortedIds(_)
SortedIds(ids) ==
    IF ids = {} THEN <<>>
    ELSE LET m == CHOOSE i \in ids : \A j \in ids : i <= j
         IN  <<m>> \o SortedIds(ids \ {m})

RowById(rows, i) == CHOOSE r \in rows : r.id = i

\* get_history without the WHERE clause
GetHistoryAllSessions(rows, session_id) ==
    LET ids == SortedIds({r.id : r \in rows})
    IN  [k \in 1..Len(ids) |->
            [role    |-> IF RowById(rows, ids[k]).role = "assistant"
                         THEN "assistant" ELSE "user",
             content |-> RowById(rows, ids[k]).content]]

\* SELECT role, content ... WHERE session_id=? ORDER BY id, roles normalised
get_history(rows, session_id) ==
    LET ids == SortedIds({r.id : r \in {x \in rows : x.session_id = session_id}})
    IN  [k \in 1..Len(ids) |->
            [role    |-> IF RowById(rows, ids[k]).role = "assistant"
                         THEN "assistant" ELSE "user",
             content |-> RowById(rows, ids[k]).content]]

\* InsertRow with the new row given an id below every id in use
InsertRowFront(rows, id, session_id, role, content) ==
    rows \cup {[id |-> 0 - id, session_id |-> session_id, role |-> role, content |-> content]}

\* INSERT INTO conversations (session_id, role, content)
InsertRow(rows, id, session_id, role, content) ==
    rows \cup {[id |-> id, session_id |-> session_id, role |-> role, content |-> content]}

\* DeleteRows removing only the user rows of the session
DeleteRowsUsers(rows, session_id) ==
    {r \in rows : r.session_id # session_id \/ r.role # "user"}

\* DeleteRows without the WHERE clause
DeleteRowsAll(rows, session_id) == {}

\* DELETE FROM conversations WHERE session_id=?
DeleteRows(rows, session_id) == {r \in rows : r.session_id # session_id}

\* save_message storing every message under the role user
SaveAsUser(t, role, content) ==
    /\ conversations' = InsertRow(conversations, seq + 1, inv[t].session_id, "user", content)
    /\ seq' = seq + 1
    /\ log' = [log EXCEPT ![inv[t].session_id] =
                  Append(@, [id |-> seq + 1, inv |-> inv[t].id, role |-> "user", content |-> content])]

\* save_message called by thread t: the row is inserted and committed
save_message(t, role, content) ==
    /\ conversations' = InsertRow(conversations, seq + 1, inv[t].session_id, role, content)
    /\ seq' = seq + 1
    /\ log' = [log EXCEPT ![inv[t].session_id] =
                  Append(@, [id |-> seq + 1, inv |-> inv[t].id, role |-> role, content |-> content])]

StoreUnchanged == UNCHANGED <<conversations, seq, log>>

(* ------------------------------ chat() --------------------------------- *)

Success(rec, response, source, action, score) ==
    [kind |-> "ok", status |-> 200, error |-> "", detail |-> NoError,
     response |-> response, source |-> source, action |-> action,
     session_id |-> rec.session_id, match_score |-> score,
     cleared |-> FALSE, body |-> <<>>]

Failure(status, error, detail) ==
    [NoOutcome EXCEPT !.kind = "error", !.status = status, !.error = error, !.detail = detail]

\* Route with the FAQ matcher consulted before the escalation rule
RouteFaqFirst(faqs, query) ==
    IF ~Truthy(query) THEN "reject"
    ELSE IF Truthy(find_relevant_faq(faqs, query, DefaultThreshold)[1]) THEN "faq"
    ELSE IF should_escalate(query) THEN "escalate"
    ELSE "llm"

\* Route with the validation testing only for a missing query
RouteNoneOnly(faqs, query) ==
    IF query = None THEN "reject"
    ELSE IF should_escalate(query) THEN "escalate"
    ELSE IF Truthy(find_relevant_faq(faqs, query, DefaultThreshold)[1]) THEN "faq"
    ELSE "llm"

\* the stage chat() takes after reading the query: validation, then the
\* escalation rule, then the FAQ matcher, then the LLM
Route(faqs, query) ==
    IF ~Truthy(query) THEN "reject"
    ELSE IF should_escalate(query) THEN "escalate"
    ELSE IF Truthy(find_relevant_faq(faqs, query, DefaultThreshold)[1]) THEN "faq"
    ELSE "llm"

\* the functions chat() has called once it has taken a route
StagesOf(route) ==
    CASE route = "reject"   -> {}
      [] route = "escalate" -> {"should_escalate"}
      [] route = "faq"      -> {"should_escalate", "find_relevant_faq"}
      [] route = "llm"      -> {"should_escalate", "find_relevant_faq"}

\* Route and find_relevant_faq tabulated over the inputs of the model
Routing == [kb \in KnowledgeBases |-> [q \in Queries |-> Route(kb, q)]]
Matching == [kb \in KnowledgeBases |->
                [q \in Queries |-> find_relevant_faq(kb, q, DefaultThreshold)]]

\* a request arrives: data.get("session_id", "default"), data.get("query"),
\* the validation and the two deterministic stages
ChatStart(t, sid, q) ==
    /\ Accepts(t)
    /\ LET route == Routing[FAQ_LIST][q]
           match == Matching[FAQ_LIST][q]
           rec   == [Idle EXCEPT !.route = "chat", !.id = nInv + 1,
                                 !.session_id = IF sid = Missing THEN "default" ELSE sid,
                                 !.query = q,
                                 !.stages = StagesOf(route)]
       IN  inv' = [inv EXCEPT ![t] =
              CASE route = "reject" ->
                     [rec EXCEPT !.pc = "done",
                                 !.outcome = Failure(400, "No query provided", NoError)]
                [] route = "escalate" -> [rec EXCEPT !.pc = "esc_user"]
                [] route = "faq" ->
                     [rec EXCEPT !.pc = "faq_user", !.faq_answer = match[1], !.score = match[2]]
                [] route = "llm" -> [rec EXCEPT !.pc = "history"]]
    /\ nInv' = nInv + 1
    /\ UNCHANGED <<call, FAQ_LIST, MODEL_FALLBACKS, workers, conversations, seq, log>>

\* the outer except: an exception outside the model loop ends the request
Fault(rec, err) ==
    [rec EXCEPT !.pc = "done",
                !.outcome = Failure(500, "Internal server error", err)]

\* the thread's record after its save_message inserted row seq + 1
Wrote(rec, role, content) ==
    [rec EXCEPT !.writes = Append(@, [id |-> seq + 1, session_id |-> rec.session_id,
                                      role |-> role, content |-> content])]

\* save_message(session_id, "user", query) of the rule-based branch
EscSaveUser(t) ==
    /\ inv[t].pc = "esc_user"
    /\ \/ /\ save_message(t, "user", inv[t].query)
          /\ inv' = [inv EXCEPT ![t] = [Wrote(@, "user", @.query) EXCEPT !.pc = "esc_asst"]]
       \/ /\ StoreUnchanged
          /\ inv' = [inv EXCEPT ![t] = Fault(@, DB_ERROR)]
    /\ UNCHANGED <<call, FAQ_LIST, MODEL_FALLBACKS, workers, nInv>>

\* save_message(session_id, "assistant", message) and the rule-based reply
EscSaveAssistant(t) ==
    /\ inv[t].pc = "esc_asst"
    /\ \/ /\ save_message(t, "assistant", HANDOFF)
          /\ inv' = [inv EXCEPT ![t] =
                [Wrote(@, "assistant", HANDOFF) EXCEPT !.pc = "done",
                                 !.outcome = Success(inv[t], HANDOFF, <<"rule-based">>, "escalated", 0)]]
       \/ /\ StoreUnchanged
          /\ inv' = [inv EXCEPT ![t] = Fault(@, DB_ERROR)]
    /\ UNCHANGED <<call, FAQ_LIST, MODEL_FALLBACKS, workers, nInv>>

\* save_message(session_id, "user", query) of the FAQ branch
FaqSaveUser(t) ==
    /\ inv[t].pc = "faq_user"
    /\ \/ /\ save_message(t, "user", inv[t].query)
          /\ inv' = [inv EXCEPT ![t] = [Wrote(@, "user", @.query) EXCEPT !.pc = "faq_asst"]]
       \/ /\ StoreUnchanged
          /\ inv' = [inv EXCEPT ![t] = Fault(@, DB_ERROR)]
    /\ UNCHANGED <<call, FAQ_LIST, MODEL_FALLBACKS, workers, nInv>>

\* save_message(session_id, "assistant", faq_answer) and the FAQ reply
FaqSaveAssistant(t) ==
    /\ inv[t].pc = "faq_asst"
    /\ \/ /\ save_message(t, "assistant", inv[t].faq_answer)
          /\ inv' = [inv EXCEPT ![t] =
                [Wrote(@, "assistant", @.faq_answer) EXCEPT !.pc = "done",
                                 !.outcome = Success(inv[t], inv[t].faq_answer, <<"faq">>,
                                                     "responded", inv[t].score)]]
       \/ /\ StoreUnchanged
          /\ inv' = [inv EXCEPT ![t] = Fault(@, DB_ERROR)]
    /\ UNCHANGED <<call, FAQ_LIST, MODEL_FALLBACKS, workers, nInv>>

\* BuildMessages leaving the history out
BuildMessagesNoHistory(history, query) ==
    <<[role |-> "system", content |-> system_prompt],
      [role |-> "user", content |-> query]>>

\* messages = [system, *history, user query]
BuildMessages(history, query) ==
    <<[role |-> "system", content |-> system_prompt]>> \o history
        \o <<[role |-> "user", content |-> query]>>

\* the for loop moves to MODEL_FALLBACKS[i], or falls out of the list
EnterLoop(rec, models, i) ==
    IF i <= Len(models)
    THEN [rec EXCEPT !.pc = "call", !.mi = i]
    ELSE [rec EXCEPT !.pc = "done", !.mi = i,
                     !.outcome = Failure(500, "AI backend failed", rec.last_error)]

\* history = get_history(session_id); the message list; the loop starts
GetHistory(t) ==
    /\ inv[t].pc = "history"
    /\ \/ LET h   == get_history(conversations, inv[t].session_id)
              rec == [inv[t] EXCEPT !.messages = BuildMessages(h, inv[t].query),
                                    !.stages = @ \cup {"get_history"}]
          IN  inv' = [inv EXCEPT ![t] = EnterLoop(rec, MODEL_FALLBACKS, 1)]
       \/ inv' = [inv EXCEPT ![t] = Fault([@ EXCEPT !.stages = @ \cup {"get_history"}], DB_ERROR)]
    /\ UNCHANGED <<call, FAQ_LIST, MODEL_FALLBACKS, workers, conversations, seq, nInv, log>>

\* the three extraction paths of the reply
ExtractReply(resp) ==
    IF resp.path \in {"message", "text"} THEN Strip(resp.text)
    ELSE SubSeq(resp.text, 1, Min(Len(resp.text), ReprLimit))

\* Classify testing for a reply equal to the sentinel
ClassifyExact(bot_reply) ==
    IF bot_reply = SENTINEL THEN <<HANDOFF, "escalated">>
    ELSE <<bot_reply, "responded">>

\* the sentinel test: <<final_reply, action>>
Classify(bot_reply) ==
    IF Contains(bot_reply, SENTINEL) THEN <<HANDOFF, "escalated">>
    ELSE <<bot_reply, "responded">>

\* AfterFailure without the logger.warning
AfterFailureSilent(rec, models, err) ==
    EnterLoop([rec EXCEPT !.last_error = err,
                          !.resp = NoResponse, !.bot_reply = <<>>,
                          !.final_reply = <<>>, !.action = ""],
              models, rec.mi + 1)

\* except Exception as e inside the loop: warn, remember, next model; resp,
\* bot_reply, final_reply and action are assigned again before they are read
AfterFailure(rec, models, err) ==
    EnterLoop([rec EXCEPT !.warnings = Append(@, [model |-> models[rec.mi], error |-> err]),
                          !.last_error = err,
                          !.resp = NoResponse, !.bot_reply = <<>>,
                          !.final_reply = <<>>, !.action = ""],
              models, rec.mi + 1)

\* client.chat.completions.create(model, messages, temperature=0.0), the
\* extraction of the reply and the sentinel test
BackendCall(t) ==
    /\ inv[t].pc = "call"
    /\ LET model == MODEL_FALLBACKS[inv[t].mi]
           sent(result) == [inv[t] EXCEPT
               !.stages = @ \cup {"llm"},
               !.calls = Append(@, [model |-> model, messages |-> inv[t].messages,
                                    result |-> result])]
       IN  \/ inv' = [inv EXCEPT ![t] =
                         AfterFailure(sent(CallError(model)), MODEL_FALLBACKS, CallError(model))]
           \/ \E resp \in Responses :
                LET bot_reply == ExtractReply(resp)
                    c         == Classify(bot_reply)
                IN  inv' = [inv EXCEPT ![t] =
                       [sent(OK) EXCEPT !.pc = "llm_user", !.resp = resp, !.bot_reply = bot_reply,
                                          !.final_reply = c[1], !.action = c[2]]]
    /\ UNCHANGED <<call, FAQ_LIST, MODEL_FALLBACKS, workers, conversations, seq, nInv, log>>

\* save_message(session_id, "user", query) inside the loop
LlmSaveUser(t) ==
    /\ inv[t].pc = "llm_user"
    /\ \/ /\ save_message(t, "user", inv[t].query)
          /\ inv' = [inv EXCEPT ![t] = [Wrote(@, "user", @.query) EXCEPT !.pc = "llm_asst"]]
       \/ /\ StoreUnchanged
          /\ inv' = [inv EXCEPT ![t] = AfterFailure(@, MODEL_FALLBACKS, DB_ERROR)]
    /\ UNCHANGED <<call, FAQ_LIST, MODEL_FALLBACKS, workers, nInv>>

\* save_message(session_id, "assistant", final_reply) and the LLM reply
LlmSaveAssistant(t) ==
    /\ inv[t].pc = "llm_asst"
    /\ \/ /\ save_message(t, "assistant", inv[t].final_reply)
          /\ inv' = [inv EXCEPT ![t] =
                [Wrote(@, "assistant", @.final_reply) EXCEPT !.pc = "done",
                                 !.outcome = Success(inv[t], inv[t].final_reply,
                                                     <<"llm", MODEL_FALLBACKS[inv[t].mi]>>,
                                                     inv[t].action, 0)]]
       \/ /\ StoreUnchanged
          /\ inv' = [inv EXCEPT ![t] = AfterFailure(@, MODEL_FALLBACKS, DB_ERROR)]
    /\ UNCHANGED <<call, FAQ_LIST, MODEL_FALLBACKS, workers, nInv>>

(* ------------------------------ other routes --------------------------- *)

\* GET /history: jsonify(get_history(session_id))
History(t, sid) ==
    /\ Accepts(t)
    /\ LET session_id == IF sid = Missing THEN "default" ELSE sid
       IN  inv' = [inv EXCEPT ![t] =
              [Idle EXCEPT !.pc = "done", !.route = "history", !.id = nInv + 1,
                           !.session_id = session_id,
                           !.outcome = [NoOutcome EXCEPT
                               !.kind = "ok", !.status = 200,
                               !.body = get_history(conversations, session_id)]]]
    /\ nInv' = nInv + 1
    /\ UNCHANGED <<call, FAQ_LIST, MODEL_FALLBACKS, workers, conversations, seq, log>>

\* POST /clear_history: DELETE, then {"cleared": True, "session_id": ...}
ClearHistory(t, sid) ==
    /\ Accepts(t)
    /\ LET session_id == IF sid = Missing THEN "default" ELSE sid
       IN  /\ conversations' = DeleteRows(conversations, session_id)
           /\ log' = [log EXCEPT ![session_id] = <<>>]
           /\ inv' = [inv EXCEPT ![t] =
                 [Idle EXCEPT !.pc = "done", !.route = "clear", !.id = nInv + 1,
                              !.session_id = session_id,
                              !.outcome = [NoOutcome EXCEPT
                                  !.kind = "ok", !.status = 200, !.cleared = TRUE,
                                  !.session_id = session_id]]]
    /\ nInv' = nInv + 1
    /\ UNCHANGED <<call, FAQ_LIST, MODEL_FALLBACKS, workers, seq>>

(* ------------------------------ specification -------------------------- *)

Next ==
    \/ \E t \in Threads, sid \in Sessions \cup {Missing}, q \in Queries : ChatStart(t, sid, q)
    \/ \E t \in Threads : EscSaveUser(t)
    \/ \E t \in Threads : EscSaveAssistant(t)
    \/ \E t \in Threads : FaqSaveUser(t)
    \/ \E t \in Threads : FaqSaveAssistant(t)
    \/ \E t \in Threads : GetHistory(t)
    \/ \E t \in Threads : BackendCall(t)
    \/ \E t \in Threads : LlmSaveUser(t)
    \/ \E t \in Threads : LlmSaveAssistant(t)
    \/ \E t \in Threads, sid \in Sessions \cup {Missing} : History(t, sid)
    \/ \E t \in Threads, sid \in Sessions \cup {Missing} : ClearHistory(t, sid)

Spec == Init /\ [][Next]_vars

\* The functions of the module applied on their own: the state starts with
\* the arguments of one call, and the call returns.  find_relevant_faq reads
\* the global FAQ_LIST; load_faqs() is what line 103 assigns to it.
FnInit ==
    /\ \/ /\ call \in {[NoCall EXCEPT !.op = "tokenize", !.text = x] : x \in Texts}
          /\ FAQ_LIST = <<>>
       \/ /\ call \in {[NoCall EXCEPT !.op = "find_relevant_faq", !.text = q, !.threshold = th] :
                           q \in MatchQueries, th \in Thresholds}
          /\ FAQ_LIST \in MatchKBs
       \/ /\ call \in {[NoCall EXCEPT !.op = "load_faqs", !.source = src] : src \in Sources}
          /\ FAQ_LIST = <<>>
    /\ MODEL_FALLBACKS = DeployedModels
    /\ workers = 1
    /\ conversations = {}
    /\ seq = 0
    /\ inv = [t \in Threads |-> Idle]
    /\ nInv = 0
    /\ log = [s \in Sessions |-> <<>>]

Pending(op) == call.op = op /\ ~call.returned

Tokenize ==
    /\ Pending("tokenize")
    /\ call' = [call EXCEPT !.returned = TRUE, !.tokens = tokenize(call.text)]
    /\ UNCHANGED <<FAQ_LIST, MODEL_FALLBACKS, workers, conversations, seq, inv, nInv, log>>

FindRelevantFaq ==
    /\ Pending("find_relevant_faq")
    /\ LET r == find_relevant_faq(FAQ_LIST, call.text, call.threshold)
       IN  call' = [call EXCEPT !.returned = TRUE, !.answer = r[1], !.score = r[2]]
    /\ UNCHANGED <<FAQ_LIST, MODEL_FALLBACKS, workers, conversations, seq, inv, nInv, log>>

\* FAQ_LIST = load_faqs(); an exception leaves FAQ_LIST unassigned
LoadFaqs ==
    /\ Pending("load_faqs")
    /\ LET r == load_faqs(call.source)
       IN  /\ call' = [call EXCEPT !.returned = TRUE, !.loaded = r]
           /\ FAQ_LIST' = IF r.raised THEN FAQ_LIST ELSE r.faqs
    /\ UNCHANGED <<MODEL_FALLBACKS, workers, conversations, seq, inv, nInv, log>>

FnNext == Tokenize \/ FindRelevantFaq \/ LoadFaqs

FnSpec == FnInit /\ [][FnNext]_vars

\* The server handling one request at a time over a store whose writes all
\* commit: the INSERT of every save_message step goes through.  Reads of the
\* store and calls of the models may still fail.
SeqInit == Init /\ workers = 1

Committed == seq' = seq + 1

SeqNext ==
    \/ \E t \in Threads, sid \in Sessions \cup {Missing}, q \in Queries : ChatStart(t, sid, q)
    \/ \E t \in Threads : EscSaveUser(t) /\ Committed
    \/ \E t \in Threads : EscSaveAssistant(t) /\ Committed
    \/ \E t \in Threads : FaqSaveUser(t) /\ Committed
    \/ \E t \in Threads : FaqSaveAssistant(t) /\ Committed
    \/ \E t \in Threads : GetHistory(t)
    \/ \E t \in Threads : BackendCall(t)
    \/ \E t \in Threads : LlmSaveUser(t) /\ Committed
    \/ \E t \in Threads : LlmSaveAssistant(t) /\ Committed
    \/ \E t \in Threads, sid \in Sessions \cup {Missing} : History(t, sid)
    \/ \E t \in Threads, sid \in Sessions \cup {Missing} : ClearHistory(t, sid)

SeqSpec == SeqInit /\ [][SeqNext]_vars

(* ------------------------------ properties ----------------------------- *)

ChatThreads == {t \in Threads : inv[t].route = "chat"}
Finished(t) == inv[t].pc = "done"

\* the request ended in the outer except (an unexpected internal fault)
Faulted(t) == inv[t].outcome.error = "Internal server error"
BackendFailed(t) == inv[t].outcome.error = "AI backend failed"
Succeeded(t) == Finished(t) /\ inv[t].outcome.kind = "ok"

\* the query holds some escalation keyword, whatever the case of its letters
HasKeyword(query) ==
    /\ query # None
    /\ \E n \in 1..Len(ESCALATION_KEYWORDS) :
         LET k == ESCALATION_KEYWORDS[n]
         IN  \E i \in 0..(Len(query) - Len(k)) :
                \A j \in 1..Len(k) : LowerChar(query[i + j]) = k[j]

\* the queries of the model that hold a keyword
Escalating == {q \in Queries : HasKeyword(q)}

\* the entry's score against the query is at least the default threshold
ScoresAtLeastThreshold(faq, query) ==
    LET Q == Range(tokenize(query))
        T == Range(tokenize(Combined(faq)))
    IN  /\ T # {}
        /\ 10 * Cardinality(Q \cap T) >= 3 * Cardinality(T)

\* per knowledge base and query of the model, the entries that score at
\* least the threshold
Hits == [kb \in KnowledgeBases |-> [q \in Queries |->
            {i \in 1..Len(kb) : ScoresAtLeastThreshold(kb[i], q)}]]

\* the messages a request has appended, without their row ids
Written(t) ==
    [k \in 1..Len(inv[t].writes) |->
        [session_id |-> inv[t].writes[k].session_id,
         role |-> inv[t].writes[k].role,
         content |-> inv[t].writes[k].content]]

\* C1: a /chat request whose query holds an escalation keyword (any case, as
\* a substring) never consults the Matcher result, never reads the history
\* and never sends a backend request, whatever the knowledge base holds; it
\* ends with action=escalated, source=rule-based and the handoff message
\* (unless a store write raised and the request ended as an internal fault).
Thm_C1 ==
    \A t \in ChatThreads :
        inv[t].query \in Escalating =>
            /\ inv[t].stages = {"should_escalate"}
            /\ inv[t].calls = <<>>
            /\ inv[t].pc \in {"esc_user", "esc_asst", "done"}
            /\ Finished(t) /\ ~Faulted(t) =>
                 /\ inv[t].outcome.kind = "ok"
                 /\ inv[t].outcome.action = "escalated"
                 /\ inv[t].outcome.source = <<"rule-based">>
                 /\ inv[t].outcome.response = HANDOFF

\* an escalating query that the knowledge base matches above the threshold
\* has been answered by the escalation rule
Wit_C1 ==
    \E t \in ChatThreads :
        /\ inv[t].query = Q_ESC
        /\ FAQ_LIST = KB_A
        /\ Hits[FAQ_LIST][Q_ESC] # {}
        /\ Finished(t)
        /\ inv[t].outcome.action = "escalated"
        /\ inv[t].outcome.source = <<"rule-based">>

\* C2: a /chat request that returned a success outcome has appended exactly
\* two messages, both to its own session: (user, query) and then
\* (assistant, response of the outcome).
Cex_C2 ==
    \A t \in ChatThreads :
        Succeeded(t) =>
            Written(t) = << [session_id |-> inv[t].session_id, role |-> "user",
                             content |-> inv[t].query],
                            [session_id |-> inv[t].session_id, role |-> "assistant",
                             content |-> inv[t].outcome.response] >>

\* C3: a /chat request that reports "AI backend failed" has appended no
\* message.
Cex_C3 ==
    \A t \in ChatThreads :
        Finished(t) /\ BackendFailed(t) => inv[t].writes = <<>>

\* C4: a /chat request whose query is missing, null or empty ends at once
\* with "No query provided": no stage has run, no backend request was sent
\* and no message was appended.
Thm_C4 ==
    \A t \in ChatThreads :
        inv[t].query \in {None, <<>>} =>
            /\ Finished(t)
            /\ inv[t].outcome.kind = "error"
            /\ inv[t].outcome.error = "No query provided"
            /\ inv[t].outcome.status = 400
            /\ inv[t].stages = {}
            /\ inv[t].calls = <<>>
            /\ inv[t].writes = <<>>

\* a request with the empty string as query was rejected
Wit_C4 ==
    \E t \in ChatThreads :
        /\ inv[t].query = <<>>
        /\ Finished(t)
        /\ inv[t].outcome.error = "No query provided"

\* the request was answered by the generative stage
ByLLM(t) == Succeeded(t) /\ Len(inv[t].outcome.source) = 2

\* C5: the backends receive requests in list order, each at most once; a
\* generative outcome names the backend of the last request sent, no later
\* backend received one, and exactly one warning was logged for each backend
\* before it.
Thm_C5 ==
    \A t \in ChatThreads :
        LET calls == inv[t].calls
            n     == Len(calls)
        IN  /\ n <= Len(MODEL_FALLBACKS)
            /\ \A i \in 1..n : calls[i].model = MODEL_FALLBACKS[i]
            /\ ByLLM(t) =>
                 /\ n >= 1
                 /\ inv[t].outcome.source = <<"llm", MODEL_FALLBACKS[n]>>
                 /\ Len(inv[t].warnings) = n - 1
                 /\ \A i \in 1..(n - 1) : inv[t].warnings[i].model = MODEL_FALLBACKS[i]

\* the first backend's call failed, the second answered
Wit_C5 ==
    \E t \in ChatThreads :
        /\ ByLLM(t)
        /\ Len(MODEL_FALLBACKS) = 2
        /\ inv[t].calls[1].result # OK
        /\ inv[t].outcome.source = <<"llm", MODEL_FALLBACKS[2]>>
        /\ Len(inv[t].warnings) = 1

\* C6: "AI backend failed" is reported only when the call of every
\* configured backend failed, with the error of the last call as detail.
Cex_C6 ==
    \A t \in ChatThreads :
        Finished(t) /\ BackendFailed(t) =>
            /\ Len(inv[t].calls) = Len(MODEL_FALLBACKS)
            /\ \A i \in 1..Len(inv[t].calls) : inv[t].calls[i].result # OK
            /\ inv[t].outcome.detail = inv[t].calls[Len(inv[t].calls)].result

\* the reply holds the sentinel somewhere
HasSentinel(r) ==
    \E i \in 1..Len(r) :
        /\ i + Len(SENTINEL) - 1 <= Len(r)
        /\ SubSeq(r, i, i + Len(SENTINEL) - 1) = SENTINEL

\* C7: a generative outcome built from a reply that holds the sentinel is
\* escalated with the handoff message, which is also the stored assistant
\* message, and the raw reply is neither returned nor stored; built from a
\* reply without the sentinel it is responded, with the reply returned and
\* stored verbatim.
Thm_C7 ==
    \A t \in ChatThreads :
        ByLLM(t) =>
            LET r    == ExtractReply(inv[t].resp)
                last == inv[t].writes[Len(inv[t].writes)]
                out  == inv[t].outcome
            IN  /\ last.role = "assistant"
                /\ IF HasSentinel(r)
                   THEN /\ out.action = "escalated"
                        /\ out.response = HANDOFF
                        /\ last.content = HANDOFF
                        /\ \A k \in 1..Len(inv[t].writes) : inv[t].writes[k].content # r
                   ELSE /\ out.action = "responded"
                        /\ out.response = r
                        /\ last.content = r

\* a reply that holds the sentinel among other text was turned into the handoff
Wit_C7 ==
    \E t \in ChatThreads :
        /\ ByLLM(t)
        /\ HasSentinel(inv[t].bot_reply)
        /\ inv[t].bot_reply # SENTINEL
        /\ inv[t].outcome.action = "escalated"

\* C8: for a non-escalating query, if some entry scores at least the
\* threshold the request is answered from the knowledge base (source=faq,
\* action=responded, the entry's answer) and never reaches the generative
\* stage, whatever the entry holds.
Cex_C8 ==
    \A t \in ChatThreads :
        LET q    == inv[t].query
            hits == Hits[FAQ_LIST][q]
        IN  Truthy(q) /\ q \notin Escalating /\ hits # {} =>
                /\ inv[t].calls = <<>>
                /\ "get_history" \notin inv[t].stages
                /\ Finished(t) /\ ~Faulted(t) =>
                     /\ inv[t].outcome.source = <<"faq">>
                     /\ inv[t].outcome.action = "responded"
                     /\ \E i \in hits : inv[t].outcome.response = FAQ_LIST[i].answer

\* the ids of the rows of a session, as /history orders them
SessionIds(s) == SortedIds({r.id : r \in {x \in conversations : x.session_id = s}})
Pos(ids, id) == CHOOSE k \in 1..Len(ids) : ids[k] = id
Stored(id) == \E r \in conversations : r.id = id

\* the user and assistant message of the turn a request returned
TurnUser(t) == inv[t].writes[Len(inv[t].writes) - 1]
TurnAssistant(t) == inv[t].writes[Len(inv[t].writes)]
HasTurn(t) ==
    /\ t \in ChatThreads
    /\ Succeeded(t)
    /\ Stored(TurnUser(t).id)
    /\ Stored(TurnAssistant(t).id)

\* C9: the user and the assistant message of a request are adjacent in the
\* history of their session, in every interleaving.
Cex_C9 ==
    \A t \in Threads :
        HasTurn(t) =>
            LET ids == SessionIds(inv[t].session_id)
            IN  Pos(ids, TurnAssistant(t).id) = Pos(ids, TurnUser(t).id) + 1

\* C9, amended: the user message of a request comes before its assistant
\* message in the history of their session, and whatever lies between them
\* was appended by other requests; the two are adjacent when the server
\* handles one request at a time.
Thm_C9 ==
    \A t \in Threads :
        HasTurn(t) =>
            LET s   == inv[t].session_id
                ids == SessionIds(s)
                pu  == Pos(ids, TurnUser(t).id)
                pa  == Pos(ids, TurnAssistant(t).id)
            IN  /\ pu < pa
                /\ \A k \in (pu + 1)..(pa - 1) :
                      \E e \in Range(log[s]) : e.id = ids[k] /\ e.inv # inv[t].id
                /\ workers = 1 => pa = pu + 1

\* a message of another request lies between the two messages of a turn
Wit_C9 ==
    \E t \in Threads :
        /\ HasTurn(t)
        /\ LET ids == SessionIds(inv[t].session_id)
           IN  Pos(ids, TurnAssistant(t).id) > Pos(ids, TurnUser(t).id) + 1

\* what /history must return for a session: the messages appended to it
\* since its last clear
Appended(s) ==
    [k \in 1..Len(log[s]) |-> [role |-> log[s][k].role, content |-> log[s][k].content]]

\* C10: the history of every session is exactly the messages appended to it
\* since its last clear, once each, in the order of the appends, content
\* unchanged, with no role other than user and assistant.
Thm_C10 ==
    \A s \in Sessions :
        LET h == get_history(conversations, s)
        IN  /\ h = Appended(s)
            /\ \A k \in 1..Len(h) : h[k].role \in {"user", "assistant"}

\* one session holds a user message and then an assistant message while
\* another session holds messages too
Wit_C10 ==
    \E s \in Sessions :
        /\ Len(log[s]) = 2
        /\ get_history(conversations, s)[1].role = "user"
        /\ get_history(conversations, s)[2].role = "assistant"
        /\ \E s2 \in Sessions \ {s} : log[s2] # <<>>

\* the step is a /clear_history request handled by thread t
ClearStep(t) ==
    /\ nInv' = nInv + 1
    /\ inv'[t].id = nInv'
    /\ inv'[t].route = "clear"

\* the history of every session, as /history returns it
Histories(rows) == [s \in Sessions |-> get_history(rows, s)]

\* C11: every /clear_history request, whatever the store holds, returns
\* cleared=true with the session id it was sent for (the default when none
\* was sent); right after it the history of that session is empty, and a
\* second clear of the session would leave the store as the first left it.
Thm_C11 ==
    [][\A t \in Threads :
          ClearStep(t) =>
              LET s == inv'[t].session_id
              IN  /\ inv'[t].pc = "done"
                  /\ inv'[t].outcome.kind = "ok"
                  /\ inv'[t].outcome.cleared = TRUE
                  /\ inv'[t].outcome.session_id = s
                  /\ get_history(conversations', s) = <<>>
                  /\ DeleteRows(conversations', s) = conversations'
                  /\ seq' = seq]_vars

\* the first request of a run cleared a session, which held no message
Wit_C11 ==
    \E t \in Threads :
        /\ inv[t].route = "clear"
        /\ inv[t].id = 1
        /\ Finished(t)
        /\ inv[t].outcome.cleared = TRUE
        /\ seq = 0

\* the step is an append of a message by the request thread t is handling
AppendStep(t) ==
    /\ inv'[t].id = inv[t].id
    /\ Len(inv'[t].writes) = Len(inv[t].writes) + 1

\* C12: a step changes the history of a session only if it is a step of a
\* request for that session; the history of every other session is left as
\* it was, whatever the request is and however it ends.  A message a request
\* appends becomes the last message of the history of the request's own
\* session, so no history holds a message appended under another session.
Thm_C12 ==
    [][LET before == Histories(conversations)
           after  == Histories(conversations')
       IN  /\ \A s \in Sessions :
                 after[s] # before[s] =>
                     \E t \in Threads : inv'[t] # inv[t] /\ inv'[t].session_id = s
           /\ \A t \in Threads :
                 AppendStep(t) =>
                     LET w == inv'[t].writes[Len(inv'[t].writes)]
                     IN  after[inv[t].session_id] =
                             Append(before[inv[t].session_id],
                                    [role |-> w.role, content |-> w.content])]_vars

\* a session was cleared while the other session keeps its messages
Wit_C12 ==
    \E t \in Threads :
        /\ inv[t].route = "clear"
        /\ Finished(t)
        /\ get_history(conversations, inv[t].session_id) = <<>>
        /\ \E s \in Sessions \ {inv[t].session_id} : Len(get_history(conversations, s)) = 2

IsPrefix(a, b) == Len(a) <= Len(b) /\ SubSeq(b, 1, Len(a)) = a

\* C17: in every step that is not a /clear_history request, the history of
\* every session before the step is a prefix of its history after the step:
\* no message is removed, rewritten or reordered.
Thm_C17 ==
    [][(\A t \in Threads : ~ClearStep(t)) =>
          LET before == Histories(conversations)
              after  == Histories(conversations')
          IN  \A s \in Sessions : IsPrefix(before[s], after[s])]_vars

\* a message was appended to a session that already held a turn
Wit_C17 ==
    \E s \in Sessions :
        /\ Len(get_history(conversations, s)) >= 3
        /\ \E t \in ChatThreads : inv[t].session_id = s /\ inv[t].writes # <<>>

\* thread t is inside the model loop of a /chat request
InLoop(t) == inv[t].pc \in {"call", "llm_user", "llm_asst"}

\* C18: when the generative stage of a request begins, its message list is
\* the system instruction, then the history of the request's session as the
\* store holds it at that moment, then the new query as last element, and
\* the request has stored nothing yet; the list is not changed afterwards,
\* and every backend request of the invocation carries it.
Thm_C18 ==
    [][\A t \in Threads :
          /\ inv[t].pc = "history" /\ inv'[t].pc = "call" =>
                LET s == inv[t].session_id
                    h == get_history(conversations, s)
                    m == inv'[t].messages
                IN  /\ Len(m) = Len(h) + 2
                    /\ m[1] = [role |-> "system", content |-> system_prompt]
                    /\ SubSeq(m, 2, Len(h) + 1) = h
                    /\ m[Len(m)] = [role |-> "user", content |-> inv[t].query]
                    /\ inv[t].writes = <<>>
                    /\ \A x \in Sessions : \A k \in 1..Len(log[x]) : log[x][k].inv # inv[t].id
          /\ InLoop(t) /\ inv'[t].id = inv[t].id => inv'[t].messages = inv[t].messages
          /\ \A i \in 1..Len(inv'[t].calls) :
                inv'[t].calls[i].messages = inv'[t].messages]_vars

\* a second backend received the request after the first attempt had stored
\* the user message, in a session that already held a turn
Wit_C18 ==
    \E t \in ChatThreads :
        /\ Len(inv[t].calls) = 2
        /\ inv[t].calls[1].result = OK
        /\ inv[t].writes # <<>>
        /\ Len(inv[t].calls[2].messages) = 4
        /\ inv[t].calls[2].messages[4].content = inv[t].query

\* user, assistant, user, assistant, ...: even length, starting with user
Alternates(h) ==
    /\ Len(h) % 2 = 0
    /\ \A k \in 1..Len(h) : h[k].role = IF k % 2 = 1 THEN "user" ELSE "assistant"

\* C19: with one request handled at a time and every store write committed,
\* whenever no request is under way the history of every session has even
\* length and alternates user, assistant, starting with user.
Thm_C19 ==
    (\A t \in Threads : Free(t)) =>
        \A s \in Sessions : Alternates(get_history(conversations, s))

\* two requests were answered in one session, which holds their two turns
Wit_C19 ==
    /\ \A t \in Threads : Free(t)
    /\ nInv = 2
    /\ \E s \in Sessions :
          /\ Len(get_history(conversations, s)) = 4
          /\ Alternates(get_history(conversations, s))

\* the call of the function has returned
Returned(op) == call.op = op /\ call.returned

\* the token set of a text and of an entry's question, answer and tags
TokenSet(text) == Range(tokenize(text))
EntryTokens(faq) == TokenSet(Combined(faq))

\* C13: when the query's token set is empty, or shares no token with the
\* combined text of any entry (as when there is no entry), find_relevant_faq
\* returns no-match with score 0, whatever the threshold, 0 included; so an
\* entry the query shares nothing with is never returned.
Thm_C13 ==
    Returned("find_relevant_faq") =>
        LET Q == TokenSet(call.text)
        IN  (\A i \in 1..Len(FAQ_LIST) : Q \cap EntryTokens(FAQ_LIST[i]) = {}) =>
                /\ call.answer = None
                /\ call.score = 0

\* at threshold 0, a query with tokens found no match among entries that
\* have tokens, none of them its own
Wit_C13 ==
    /\ Returned("find_relevant_faq")
    /\ call.threshold = <<0, 1>>
    /\ call.text = <<"x","y">>
    /\ FAQ_LIST = <<E_AB, E_EFCD>>
    /\ call.answer = None

\* the source is unreadable or malformed: no file, no JSON, a JSON list with
\* an item that is no object, a JSON value that is neither list nor dict
Malformed(source) ==
    \/ source.file # "json"
    \/ source.type = "scalar"
    \/ source.type = "list" /\ \E i \in 1..Len(source.items) : source.items[i].type # "object"

\* C14: for every unreadable or malformed source load_faqs returns the empty
\* list without raising, and FAQ_LIST is then empty, so that the Matcher
\* finds no match for any query.
Cex_C14 ==
    Returned("load_faqs") /\ Malformed(call.source) =>
        /\ ~call.loaded.raised
        /\ call.loaded.faqs = <<>>
        /\ FAQ_LIST = <<>>
        /\ \A q \in MatchQueries, th \in Thresholds :
              find_relevant_faq(FAQ_LIST, q, th)[1] = None

\* C15: no token tokenize returns has fewer than two characters, every
\* character of a token is a lower-case letter or a digit, and tokenizing
\* the tokens joined by blanks gives the same set of tokens.
Thm_C15 ==
    Returned("tokenize") =>
        /\ \A i \in 1..Len(call.tokens) :
              /\ Len(call.tokens[i]) >= 2
              /\ \A c \in Range(call.tokens[i]) : c \in Range(Lowers) \cup Range(Digits)
        /\ Range(tokenize(Join(call.tokens))) = Range(call.tokens)

\* a text with an upper-case letter, a punctuation mark and a fragment of
\* one character gave the one token "ab"
Wit_C15 ==
    /\ Returned("tokenize")
    /\ call.text = <<"A","b","-","7">>
    /\ call.tokens = << <<"a","b">> >>

\* score(e) = |Q \cap T_e| / |T_e| of the reference matcher, as a fraction
RefScore(Q, faq) == <<Cardinality(Q \cap EntryTokens(faq)), Cardinality(EntryTokens(faq))>>

\* the reference matcher: among the entries with tokens, the first of those
\* with the greatest score; a match when that score is above 0 and at least
\* the threshold
RefMatch(faqs, query, threshold) ==
    LET Q      == TokenSet(query)
        scored == {i \in 1..Len(faqs) : EntryTokens(faqs[i]) # {}}
        top    == {i \in scored :
                      \A j \in scored : ScoreGE(RefScore(Q, faqs[i]), RefScore(Q, faqs[j]))}
    IN  IF top = {} THEN None
        ELSE LET b == CHOOSE i \in top : \A j \in top : i <= j
             IN  IF /\ ScoreGT(RefScore(Q, faqs[b]), <<0, 1>>)
                    /\ ScoreGE(RefScore(Q, faqs[b]), threshold)
                 THEN faqs[b].answer
                 ELSE None

\* C16: find_relevant_faq returns what the reference matcher returns: the
\* answer of the first entry with the greatest score when that score is
\* above 0 and at least the threshold, and no-match otherwise.
Thm_C16 ==
    Returned("find_relevant_faq") =>
        call.answer = RefMatch(FAQ_LIST, call.text, call.threshold)

\* two entries tie with the greatest score, which is the threshold, and the
\* answer of the first was returned
Wit_C16 ==
    /\ Returned("find_relevant_faq")
    /\ FAQ_LIST = <<E_AB2, E_AB>>
    /\ call.text = <<"a","b">>
    /\ call.threshold = <<1, 1>>
    /\ call.answer = E_AB2.answer

====
